---- MODULE Spec2Model ----
(***************************************************************************)
(* State-machine model of ibm_cloud_sdk_core.token_manager.TokenManager    *)
(* and ibm_cloud_sdk_core.jwt_token_manager.JWTTokenManager: one shared     *)
(* manager instance, several threads calling get_token() on it, a clock     *)
(* and a token service answering request_token().                           *)
(*                                                                          *)
(* Units: expire_time, request_time and the clock are epoch seconds.        *)
(* refresh_time is kept in units of 1/Fifth second, because the code        *)
(* computes it as expire_time - ttl * 0.2.                                  *)
(***************************************************************************)
EXTENDS Integers, FiniteSets, Sequences, TLC

\* ------------------------------------------------------------- bounds
NumCallers == 2
\* value of the clock when the manager is constructed (epoch seconds)
Epoch == 100
\* the clock is observed around the start of the first Windows + 1 windows
\* of PaceWindow seconds after Epoch, up to Slack seconds into each
Windows == 1
Slack == 1
\* total number of request_token calls explored
MaxFetches == 2
\* number of get_token calls each thread makes
MaxCalls == 2

\* -------------------------------------------------- program constants
\* token_manager.py:132 (claim window) and :180 (refresh claim)
PaceWindow == 60
\* token_manager.py:230  buffer = ttl * 0.2 = ttl / 5
Fifth == 5

Callers == 1 .. NumCallers
\* the clock values at which the threads take steps: one second before the
\* start of each window (from the second window on) to Slack seconds into it
Instants ==
    { Epoch + w * PaceWindow + d : w \in 0 .. Windows, d \in 0 .. Slack }
      \cup { Epoch + w * PaceWindow - 1 : w \in 1 .. Windows }
MaxTime == Epoch + Windows * PaceWindow + Slack

\* ------------------------------------------------------------- values
\* Python None, as a dictionary value and as a result
None == [kind |-> "None"]
\* the token_name "None" stands for the Python default token_name=None
NoName == "None"
\* keys a token response can carry
Keys == {"access_token"}
\* names a manager can be configured with
TokenNames == {"access_token", NoName}
\* token_info = {} after construction (token_manager.py:66)
EmptyDict == [k \in Keys |-> None]

\* a well-formed JWT: the payload carries exp and iat
Jwt(id, exp, iat) == [kind |-> "jwt", id |-> id, exp |-> exp, iat |-> iat]
\* a token string that does not decode
Malformed(id) == [kind |-> "malformed", id |-> id, exp |-> 0, iat |-> 0]

\* outcomes of a get_token call that raised
TransportError == [kind |-> "TransportError"]
DecodeError == [kind |-> "DecodeError"]
NoResult == [kind |-> "NoResult"]
IsError(r) == r.kind \in {"TransportError", "DecodeError"}

\* the methods declared with @abstractmethod (token_manager.py:145 and :233);
\* JWTTokenManager declares request_token abstract again and inherits the other
AbstractMethods == {"request_token", "extract_exp_and_ttl"}
\* what calling a class derived from ABC raises while a method is abstract
AbstractClassError == [kind |-> "TypeError"]
\* the outcome the tests of TokenManager expect of the two methods
NotImplementedError(method) ==
    [kind |-> "NotImplementedError",
     message |-> method \o " MUST be overridden by a subclass of TokenManager."]
\* what a subclass's own implementation of a method answers
Overridden(method) == [kind |-> "overridden", method |-> method]

\* dict.get(key): the value, or None when the key is absent
Get(d, k) == IF k \in DOMAIN d THEN d[k] ELSE None

\* the tokens the service issues, as <<exp, iat>>:
\*   valid and not refresh-due for the whole run (refresh due at Epoch + 800),
\*   short-lived (refresh due after Epoch, expired after Epoch + 1),
\*   expired before it is delivered (exp = Epoch - 1)
Offers ==
    { <<Epoch + 1000, Epoch>>, <<Epoch + 1, Epoch - 4>>, <<Epoch - 1, Epoch - 8>> }
\* what request_token number id may return
Responses(id) ==
    { [k \in Keys |-> Jwt(id, o[1], o[2])] : o \in Offers }
      \cup { [k \in Keys |-> Malformed(id)] }
\* the answer of a service that always issues the long-lived token
GoodResponses(id) == { [k \in Keys |-> Jwt(id, Epoch + 1000, Epoch)] }

VARIABLES
    now,            \* the clock, time.time() in whole seconds
    variant,        \* "TokenManager" or "JWTTokenManager"
    token_name,     \* self.token_name
    token_info,     \* self.token_info
    expire_time,    \* self.expire_time
    refresh_time,   \* self.refresh_time, in 1/Fifth seconds
    request_time,   \* self.request_time
    lock,           \* self.lock: 0 when free, else the caller holding it
    pc,             \* per caller: the statement of get_token it is at
    path,           \* per caller: "paced" or "refresh", who called request_token
    current_time,   \* per caller: local current_time
    token_response, \* per caller: local token_response
    result,         \* per caller: what the last get_token returned or raised
    fetches,        \* number of request_token calls completed so far
    paced_calls,    \* per caller: request_token calls of this get_token, line 137
    refresh_calls,  \* per caller: request_token calls of this get_token, line 88
    fetch_id,       \* per caller: number of its last request_token call
    calls,          \* per caller: number of get_token calls made so far
    entry,          \* per caller: how get_token found the cached token on entry
    last_claim,     \* who last became claimant, and the request_time it recorded
    refresh_claim,  \* whose _token_needs_refresh last returned true, its time,
                    \* whether no save has written refresh_time since, and
                    \* whether the request_token call it led to has raised
    arg_token_name, \* the token_name argument given to the constructor
    overrides       \* the abstract methods the instantiated class implements

vars == <<now, variant, token_name, token_info, expire_time, refresh_time,
          request_time, lock, pc, path, current_time, token_response, result,
          fetches, paced_calls, refresh_calls, fetch_id, calls, entry, last_claim,
          refresh_claim, arg_token_name, overrides>>

manager == <<variant, token_name, arg_token_name, overrides>>
record == <<token_info, expire_time, refresh_time>>
locals == <<path, current_time, token_response, result>>
counters == <<fetches, paced_calls, refresh_calls, fetch_id, calls, entry, last_claim,
              refresh_claim>>

\* ------------------------------------------------------- construction
\* (variant for C10: the constructor drops its token_name argument)
TokenManagerInitDropsName(name) ==
    [token_name |-> NoName, token_info |-> EmptyDict, expire_time |-> 0,
     refresh_time |-> 0, request_time |-> 0]

\* TokenManager.__init__
TokenManagerInit(name) ==
    [token_name |-> name, token_info |-> EmptyDict, expire_time |-> 0,
     refresh_time |-> 0, request_time |-> 0]

\* JWTTokenManager.__init__: the base constructor runs without token_name,
\* then token_name and token_info are assigned
JWTTokenManagerInit(name) ==
    [TokenManagerInit(NoName) EXCEPT !.token_name = name, !.token_info = EmptyDict]

Construct(v, name) ==
    IF v = "JWTTokenManager" THEN JWTTokenManagerInit(name) ELSE TokenManagerInit(name)

\* the state after the constructor has run
ManagerInit ==
    /\ now = Epoch
    /\ variant \in {"TokenManager", "JWTTokenManager"}
    /\ arg_token_name \in TokenNames
    /\ token_name = Construct(variant, arg_token_name).token_name
    /\ token_info = Construct(variant, arg_token_name).token_info
    /\ expire_time = Construct(variant, arg_token_name).expire_time
    /\ refresh_time = Construct(variant, arg_token_name).refresh_time
    /\ request_time = Construct(variant, arg_token_name).request_time
    /\ lock = 0
    /\ pc = [c \in Callers |-> "idle"]
    /\ path = [c \in Callers |-> "none"]
    /\ current_time = [c \in Callers |-> 0]
    /\ token_response = [c \in Callers |-> EmptyDict]
    /\ result = [c \in Callers |-> NoResult]
    /\ fetches = 0
    /\ paced_calls = [c \in Callers |-> 0]
    /\ refresh_calls = [c \in Callers |-> 0]
    /\ fetch_id = [c \in Callers |-> 0]
    /\ calls = [c \in Callers |-> 0]
    /\ entry = [c \in Callers |-> "none"]
    /\ last_claim = [by |-> 0, at |-> 0]
    /\ refresh_claim = [by |-> 0, at |-> 0, kept |-> FALSE, failed |-> FALSE]

\* the manager is an instance of a subclass that implements request_token
\* and extract_exp_and_ttl
Init == ManagerInit /\ overrides = AbstractMethods

\* ---------------------------------------------------------- the clock
Tick ==
    /\ \E t \in Instants : t > now /\ now' = t
    /\ UNCHANGED <<manager, record, request_time, lock, pc, locals, counters>>

\* --------------------------------------------------------- predicates
\* (variant for C19: a token is expired already in its last second)
IsTokenExpiredInclusive(t) == expire_time <= t

\* _is_token_expired: self.expire_time < current_time
IsTokenExpired(t) == expire_time < t

\* (variant for C7: a claim on record never lapses)
RequestActiveNeverLapses(t) == request_time # 0

\* (variant for C2: a window one second short)
RequestActiveShortWindow(t) == request_time > (t - (PaceWindow - 1))

\* line 132: self.request_time > (current_time - 60)
RequestActive(t) == request_time > (t - PaceWindow)

\* (variant for C15: the comparison the wrong way round)
NeedsRefreshReversed(t) == refresh_time > Fifth * t

\* (variant for C6: refresh already at the refresh time itself)
NeedsRefreshInclusive(t) == refresh_time <= Fifth * t

\* (variant for C9: the test reads expire_time instead of refresh_time)
NeedsRefreshByExpiry(t) == expire_time < t

\* line 178: self.refresh_time < current_time
NeedsRefresh(t) == refresh_time < Fifth * t

\* ----------------------------------------------------------- get_token
\* positions of a caller:
\*   "idle"          not inside get_token
\*   "prt_lock"      paced_request_token line 131, waiting for the lock
\*   "prt_locked"    lines 132-134, holding the lock
\*   "prt_sleep"     line 143, time.sleep(0.5)
\*   "request_token" inside request_token (called on line 137 or line 88)
\*   "save_expire"   _save_token_info after line 196 (66)
\*   "save_refresh"  _set_expire_and_refresh_time after line 229
\*   "prt_release"   line 139
\*   "nr_time"       _token_needs_refresh line 175
\*   "nr_lock"       line 177, waiting for the lock
\*   "nr_locked"     lines 178-180, holding the lock
\*   "gt_return"     get_token line 91

\* lines 128-129: while self._is_token_expired(): current_time = ...
\* (line 87 follows when the token is not expired)
LoopHead(c) ==
    IF IsTokenExpired(now)
    THEN /\ pc' = [pc EXCEPT ![c] = "prt_lock"]
         /\ current_time' = [current_time EXCEPT ![c] = now]
    ELSE /\ pc' = [pc EXCEPT ![c] = "nr_time"]
         /\ UNCHANGED current_time

\* what a call finds: no token or an expired one, a valid token whose refresh
\* time has passed, or a valid token not due for refresh
EntryState ==
    IF expire_time < now THEN "expired"
    ELSE IF refresh_time < Fifth * now THEN "refresh_due"
    ELSE "fresh"

\* a thread calls get_token: line 84, if self._is_token_expired():
\* self.paced_request_token(), whose loop condition is the same test
GetToken(c) ==
    /\ pc[c] = "idle"
    /\ calls[c] < MaxCalls
    /\ calls' = [calls EXCEPT ![c] = @ + 1]
    /\ LoopHead(c)
    /\ path' = [path EXCEPT ![c] = "none"]
    /\ result' = [result EXCEPT ![c] = NoResult]
    /\ paced_calls' = [paced_calls EXCEPT ![c] = 0]
    /\ refresh_calls' = [refresh_calls EXCEPT ![c] = 0]
    /\ fetch_id' = [fetch_id EXCEPT ![c] = 0]
    /\ entry' = [entry EXCEPT ![c] = EntryState]
    /\ UNCHANGED <<now, manager, record, request_time, lock, fetches, token_response,
                   last_claim, refresh_claim>>

\* ------------------------------------------------- paced_request_token
\* line 131: with self.lock (entry)
PacedAcquire(c) ==
    /\ pc[c] = "prt_lock"
    /\ lock = 0
    /\ lock' = c
    /\ pc' = [pc EXCEPT ![c] = "prt_locked"]
    /\ UNCHANGED <<now, manager, record, request_time, locals, counters>>

\* (variant for C22: the claimant keeps the lock for the fetch)
PacedCriticalKeepsLock(c) ==
    /\ pc[c] = "prt_locked"
    /\ lock = c
    /\ IF RequestActive(current_time[c])
       THEN /\ pc' = [pc EXCEPT ![c] = "prt_sleep"]
            /\ lock' = 0
            /\ UNCHANGED <<request_time, path, last_claim>>
       ELSE /\ request_time' = current_time[c]
            /\ pc' = [pc EXCEPT ![c] = "request_token"]
            /\ path' = [path EXCEPT ![c] = "paced"]
            /\ last_claim' = [by |-> c, at |-> current_time[c]]
            /\ UNCHANGED lock
    /\ current_time' = [current_time EXCEPT ![c] = 0]
    /\ UNCHANGED <<now, manager, record, token_response, result, fetches,
                   paced_calls, refresh_calls, fetch_id, calls, entry, refresh_claim>>

\* lines 132-136: the critical section, the release of the lock and the
\* branch on request_active
PacedCritical(c) ==
    /\ pc[c] = "prt_locked"
    /\ lock = c
    /\ lock' = 0
    /\ IF RequestActive(current_time[c])
       THEN /\ pc' = [pc EXCEPT ![c] = "prt_sleep"]
            /\ UNCHANGED <<request_time, path, last_claim>>
       ELSE /\ request_time' = current_time[c]
            /\ pc' = [pc EXCEPT ![c] = "request_token"]
            /\ path' = [path EXCEPT ![c] = "paced"]
            /\ last_claim' = [by |-> c, at |-> current_time[c]]
    /\ current_time' = [current_time EXCEPT ![c] = 0]
    /\ UNCHANGED <<now, manager, record, token_response, result, fetches,
                   paced_calls, refresh_calls, fetch_id, calls, entry, refresh_claim>>

\* line 143: time.sleep(0.5) ends, then the loop condition again
PacedSleep(c) ==
    /\ pc[c] = "prt_sleep"
    /\ LoopHead(c)
    /\ UNCHANGED <<now, manager, record, request_time, lock, path,
                   token_response, result, counters>>

\* lines 139-140: self.request_time = 0; return
PacedRelease(c) ==
    /\ pc[c] = "prt_release"
    /\ request_time' = 0
    /\ pc' = [pc EXCEPT ![c] = "nr_time"]
    /\ UNCHANGED <<now, manager, record, lock, locals, counters>>

\* ------------------------------------------------------- request_token
\* the call counts for the path it was made on
Counted(c) ==
    /\ fetches < MaxFetches
    /\ fetches' = fetches + 1
    /\ fetch_id' = [fetch_id EXCEPT ![c] = fetches + 1]
    /\ paced_calls' = [paced_calls EXCEPT ![c] = @ + (IF path[c] = "paced" THEN 1 ELSE 0)]
    /\ refresh_calls' = [refresh_calls EXCEPT ![c] = @ + (IF path[c] = "refresh" THEN 1 ELSE 0)]
    /\ UNCHANGED <<calls, entry, last_claim>>

\* request_token returns a response (lines 137, 88), and _save_token_info
\* begins: line 196 (66), self.token_info = token_response
RequestReturnFrom(c, answers) ==
    /\ pc[c] = "request_token"
    /\ Counted(c)
    /\ \E r \in answers :
          /\ token_response' = [token_response EXCEPT ![c] = r]
          /\ token_info' = r
    /\ pc' = [pc EXCEPT ![c] = "save_expire"]
    /\ UNCHANGED <<now, manager, expire_time, refresh_time, request_time, lock,
                   path, current_time, result, refresh_claim>>

RequestReturn(c) == RequestReturnFrom(c, Responses(fetches + 1))

\* (variant for C8: the error is swallowed and the loop runs again)
RequestRaiseRetried(c) ==
    /\ pc[c] = "request_token"
    /\ Counted(c)
    /\ pc' = [pc EXCEPT ![c] = "prt_sleep"]
    /\ UNCHANGED <<now, manager, record, request_time, lock, locals, refresh_claim>>

\* the refresh claim is marked when the call it led to raises
FailedClaim(c) ==
    IF path[c] = "refresh" /\ refresh_claim.by = c
    THEN [refresh_claim EXCEPT !.failed = TRUE]
    ELSE refresh_claim

\* (variant for C16: a failed refresh gives the refresh claim back)
RequestRaiseReverted(c) ==
    /\ pc[c] = "request_token"
    /\ Counted(c)
    /\ pc' = [pc EXCEPT ![c] = "idle"]
    /\ result' = [result EXCEPT ![c] = TransportError]
    /\ refresh_claim' = FailedClaim(c)
    /\ refresh_time' = IF path[c] = "refresh" THEN 0 ELSE refresh_time
    /\ UNCHANGED <<now, manager, token_info, expire_time, request_time, lock, path,
                   current_time, token_response>>

\* request_token raises (ApiException from _request_raw, or a network error);
\* nothing in get_token or paced_request_token catches it
RequestRaise(c) ==
    /\ pc[c] = "request_token"
    /\ Counted(c)
    /\ pc' = [pc EXCEPT ![c] = "idle"]
    /\ result' = [result EXCEPT ![c] = TransportError]
    /\ refresh_claim' = FailedClaim(c)
    /\ UNCHANGED <<now, manager, record, request_time, lock, path, current_time,
                   token_response>>

\* ---------------------------------------------------- _save_token_info
\* jwt.decode(access_token, verify=False) and the reading of exp and iat
JwtDecodable(tok) == tok.kind = "jwt"

\* JWTTokenManager._save_token_info lines 67-75: the token under token_name
JwtExpAndTtl(resp, name) ==
    LET access_token == Get(resp, name)
    IN  IF JwtDecodable(access_token)
        THEN [ok |-> TRUE, exp |-> access_token.exp,
              ttl |-> access_token.exp - access_token.iat]
        ELSE [ok |-> FALSE, exp |-> 0, ttl |-> 0]

\* TokenManager.extract_exp_and_ttl is the subclass's: here it reads the
\* expiry of the token the response carries, and fails when there is none
ExtractExpAndTtl(resp) == JwtExpAndTtl(resp, "access_token")

ExpAndTtl(resp) ==
    IF variant = "JWTTokenManager" THEN JwtExpAndTtl(resp, token_name)
    ELSE ExtractExpAndTtl(resp)

\* lines 197 and 229 (67-77): extraction of exp and ttl, which may raise,
\* then self.expire_time = exp
SaveExpire(c) ==
    /\ pc[c] = "save_expire"
    /\ LET e == ExpAndTtl(token_response[c])
       IN  IF e.ok
           THEN /\ expire_time' = e.exp
                /\ pc' = [pc EXCEPT ![c] = "save_refresh"]
                /\ UNCHANGED <<result, token_response>>
           ELSE /\ pc' = [pc EXCEPT ![c] = "idle"]
                /\ result' = [result EXCEPT ![c] = DecodeError]
                /\ token_response' = [token_response EXCEPT ![c] = EmptyDict]
                /\ UNCHANGED expire_time
    /\ UNCHANGED <<now, manager, token_info, refresh_time, request_time, lock,
                   path, current_time, counters>>

\* (variant for C20: the buffer is four fifths of the lifetime)
RefreshTimeForEighty(exp, ttl) == Fifth * exp - 4 * ttl

\* (variant for C11: the buffer is added to the expiry)
RefreshTimeForAdded(exp, ttl) == Fifth * exp + ttl

\* lines 230-231: buffer = ttl * 0.2; self.refresh_time = self.expire_time - buffer
RefreshTimeFor(exp, ttl) == Fifth * exp - ttl

\* (variant for C17: get_token tests for expiry again after a refresh)
AfterSaveLoops(p) == IF p = "paced" THEN "prt_release" ELSE "prt_sleep"

\* where _save_token_info returns to: line 139, or line 91 of get_token
AfterSave(p) == IF p = "paced" THEN "prt_release" ELSE "gt_return"

SaveRefresh(c) ==
    /\ pc[c] = "save_refresh"
    /\ refresh_time' = RefreshTimeFor(expire_time, ExpAndTtl(token_response[c]).ttl)
    /\ pc' = [pc EXCEPT ![c] = AfterSave(path[c])]
    /\ token_response' = [token_response EXCEPT ![c] = EmptyDict]
    /\ refresh_claim' = [refresh_claim EXCEPT !.kept = FALSE]
    /\ UNCHANGED <<now, manager, token_info, expire_time, request_time, lock,
                   path, current_time, result, fetches, paced_calls, refresh_calls,
                   fetch_id, calls, entry, last_claim>>

\* ------------------------------------------------ _token_needs_refresh
\* line 175: current_time = self._get_current_time()
NeedsRefreshTime(c) ==
    /\ pc[c] = "nr_time"
    /\ current_time' = [current_time EXCEPT ![c] = now]
    /\ pc' = [pc EXCEPT ![c] = "nr_lock"]
    /\ UNCHANGED <<now, manager, record, request_time, lock, path,
                   token_response, result, counters>>

\* line 177: with self.lock (entry)
NeedsRefreshAcquire(c) ==
    /\ pc[c] = "nr_lock"
    /\ lock = 0
    /\ lock' = c
    /\ pc' = [pc EXCEPT ![c] = "nr_locked"]
    /\ UNCHANGED <<now, manager, record, request_time, locals, counters>>

\* (variant for C14: the claim is moved to the time of the call only)
RefreshClaimTimeNow(t) == Fifth * t

\* line 180: self.refresh_time = current_time + 60
RefreshClaimTime(t) == Fifth * (t + PaceWindow)

\* lines 178-182, and line 87 of get_token branching on the result
NeedsRefreshCritical(c) ==
    /\ pc[c] = "nr_locked"
    /\ lock = c
    /\ lock' = 0
    /\ IF NeedsRefresh(current_time[c])
       THEN /\ refresh_time' = RefreshClaimTime(current_time[c])
            /\ pc' = [pc EXCEPT ![c] = "request_token"]
            /\ path' = [path EXCEPT ![c] = "refresh"]
            /\ refresh_claim' = [by |-> c, at |-> current_time[c], kept |-> TRUE,
                                 failed |-> FALSE]
       ELSE /\ pc' = [pc EXCEPT ![c] = "gt_return"]
            /\ UNCHANGED <<refresh_time, path, refresh_claim>>
    /\ current_time' = [current_time EXCEPT ![c] = 0]
    /\ UNCHANGED <<now, manager, token_info, expire_time, request_time,
                   token_response, result, fetches, paced_calls, refresh_calls,
                   fetch_id, calls, entry, last_claim>>

\* ------------------------------------------------------------- return
\* extract_token_from_stored_response: self.token_info.get(self.token_name)
ExtractTokenFromStoredResponse == Get(token_info, token_name)

\* line 91: return self.extract_token_from_stored_response()
Return(c) ==
    /\ pc[c] = "gt_return"
    /\ result' = [result EXCEPT ![c] = ExtractTokenFromStoredResponse]
    /\ pc' = [pc EXCEPT ![c] = "idle"]
    /\ UNCHANGED <<now, manager, record, request_time, lock, path, current_time,
                   token_response, counters>>

\* ------------------------------------------------------ specification
Step(c) ==
    \/ GetToken(c)
    \/ PacedAcquire(c)
    \/ PacedCritical(c)
    \/ PacedSleep(c)
    \/ PacedRelease(c)
    \/ RequestReturn(c)
    \/ RequestRaise(c)
    \/ SaveExpire(c)
    \/ SaveRefresh(c)
    \/ NeedsRefreshTime(c)
    \/ NeedsRefreshAcquire(c)
    \/ NeedsRefreshCritical(c)
    \/ Return(c)

Next == Tick \/ \E c \in Callers : Step(c)

Spec == Init /\ [][Next]_vars

\* the same threads against a token service that always answers, and always
\* with a token that is neither expired nor due for refresh during the run
RequestReturnGood(c) == RequestReturnFrom(c, GoodResponses(fetches + 1))

HealthyStep(c) ==
    \/ GetToken(c)
    \/ PacedAcquire(c)
    \/ PacedCritical(c)
    \/ PacedSleep(c)
    \/ PacedRelease(c)
    \/ RequestReturnGood(c)
    \/ SaveExpire(c)
    \/ SaveRefresh(c)
    \/ NeedsRefreshTime(c)
    \/ NeedsRefreshAcquire(c)
    \/ NeedsRefreshCritical(c)
    \/ Return(c)

HealthyNext == Tick \/ \E c \in Callers : HealthyStep(c)

HealthyInit == Init /\ arg_token_name \in Keys

HealthySpec == HealthyInit /\ [][HealthyNext]_vars

\* the steps a thread takes by itself once it is scheduled: all of get_token
\* except the call itself and the answer of the token service
LocalStep(c) ==
    \/ PacedAcquire(c)
    \/ PacedCritical(c)
    \/ PacedSleep(c)
    \/ PacedRelease(c)
    \/ SaveExpire(c)
    \/ SaveRefresh(c)
    \/ NeedsRefreshTime(c)
    \/ NeedsRefreshAcquire(c)
    \/ NeedsRefreshCritical(c)
    \/ Return(c)

\* the clock keeps advancing and every thread keeps being scheduled; the
\* token service need not ever answer (a JWTTokenManager with its token_name)
LiveInit == Init /\ variant = "JWTTokenManager" /\ arg_token_name \in Keys

LiveSpec ==
    /\ LiveInit
    /\ [][Next]_vars
    /\ WF_vars(Tick)
    /\ \A c \in Callers : WF_vars(LocalStep(c))

\* the threads within one second of the clock: every thread keeps being
\* scheduled, and a thread blocked in the acquire of the lock gets it when
\* the lock is released again and again (the threads that release it go on
\* to request_token, to time.sleep(0.5) or out of get_token, leaving the lock
\* free for the blocked thread); the token service need not ever answer
StillNext == \E c \in Callers : Step(c)

FairLockSpec ==
    /\ LiveInit
    /\ [][StillNext]_vars
    /\ \A c \in Callers :
          /\ WF_vars(LocalStep(c))
          /\ SF_vars(PacedAcquire(c))
          /\ SF_vars(NeedsRefreshAcquire(c))

\* ----------------------------------------------- the abstract methods
\* TokenManager.request_token and TokenManager.extract_exp_and_ttl: the
\* body is `pass`, the call returns None
AbstractBody(method) == None

\* a call of a method on an instance: the subclass's implementation when it
\* has one, else the inherited body
Dispatch(method) ==
    IF method \in overrides THEN Overridden(method) ELSE AbstractBody(method)

\* a thread calls the class, TokenManager(None): a class derived from ABC
\* with abstract methods left is not instantiated
Instantiate(c) ==
    /\ pc[c] = "idle"
    /\ calls[c] < MaxCalls
    /\ calls' = [calls EXCEPT ![c] = @ + 1]
    /\ IF AbstractMethods \ overrides # {}
       THEN /\ result' = [result EXCEPT ![c] = AbstractClassError]
            /\ UNCHANGED pc
       ELSE /\ result' = [result EXCEPT ![c] = NoResult]
            /\ pc' = [pc EXCEPT ![c] = "built"]
    /\ UNCHANGED <<now, manager, record, request_time, lock, path, current_time,
                   token_response, fetches, paced_calls, refresh_calls, fetch_id,
                   entry, last_claim, refresh_claim>>

\* the thread calls request_token() or extract_exp_and_ttl(None) on the
\* instance it has built
CallMethod(c) ==
    /\ pc[c] = "built"
    /\ \E method \in AbstractMethods :
          result' = [result EXCEPT ![c] = Dispatch(method)]
    /\ pc' = [pc EXCEPT ![c] = "idle"]
    /\ UNCHANGED <<now, manager, record, request_time, lock, path, current_time,
                   token_response, counters>>

\* threads that build an instance of a class and call its two methods, for
\* the base class itself and for classes implementing some of the methods
BaseInit == ManagerInit /\ overrides \in SUBSET AbstractMethods

BaseNext == \E c \in Callers : Instantiate(c) \/ CallMethod(c)

BaseSpec == BaseInit /\ [][BaseNext]_vars

\* one thread alone: every get_token call is made by caller 1
SoloNext == Tick \/ Step(1)

SoloSpec == Init /\ [][SoloNext]_vars

\* ------------------------------------------------------------- claims
\* the step in which caller c becomes claimant (lines 133-134)
Claims(c) == pc[c] = "prt_locked" /\ pc'[c] = "request_token"

\* the step in which get_token returns a value to caller c (line 91)
Returns(c) == pc[c] = "gt_return" /\ pc'[c] = "idle"

\* the step in which get_token raises to caller c
Raises(c) == pc[c] # "idle" /\ pc'[c] = "idle" /\ IsError(result'[c])

\* C1: callers that find no token, against a service whose every answer is
\* a valid long-lived token, cause one request_token call in total, and
\* every caller returns the token of that call.
C1_ExactlyOneFetch ==
    /\ fetches <= 1
    /\ \A c \in Callers :
          (pc[c] = "idle" /\ result[c].kind = "jwt") => result[c].id = 1

C3_NeverServesExpired ==
    [][\A c \in Callers :
          (Returns(c) /\ result'[c].kind = "jwt") => expire_time >= now]_vars

\* C4: when the claimant's request_token or _save_token_info raises,
\* request_time is 0 once the call has exited.
C4_ClaimReleasedOnFailure ==
    [][\A c \in Callers :
          (Raises(c) /\ path[c] = "paced") => request_time' = 0]_vars

\* C5: expire_time and refresh_time are always the ones derived from the
\* stored token_info (0 and 0 while token_info is empty).
C5_RecordAtomic ==
    LET e == ExpAndTtl(token_info)
    IN  IF token_info = EmptyDict
        THEN expire_time = 0 /\ refresh_time = 0
        ELSE /\ e.ok
             /\ expire_time = e.exp
             /\ refresh_time = Fifth * e.exp - e.ttl

\* C6: a step of get_token taken while the cached token is neither expired
\* nor due for refresh, by a caller outside paced_request_token and outside
\* a fetch, changes none of token_info, expire_time, refresh_time and
\* request_time, completes no request_token call, stays outside the fetch
\* paths, and when it returns, returns the cached token.
FastPath == {"idle", "nr_time", "nr_lock", "nr_locked", "gt_return"}

C6_FreshCallIsPure ==
    [][\A c \in Callers :
          ( /\ pc'[c] # pc[c]
            /\ pc[c] \in FastPath
            /\ expire_time >= now
            /\ refresh_time >= Fifth * now )
          => /\ UNCHANGED <<token_info, expire_time, refresh_time, request_time, fetches>>
             /\ pc'[c] \in FastPath
             /\ (pc'[c] = "idle" => result'[c] = Get(token_info, arg_token_name))]_vars

\* a whole call has run on a fresh token: no fetch, the cached token returned
C6_Witness ==
    \E c \in Callers :
        /\ pc[c] = "idle" /\ result[c].kind = "jwt"
        /\ paced_calls[c] = 0 /\ refresh_calls[c] = 0
        /\ result[c] = Get(token_info, arg_token_name)
        /\ expire_time >= now /\ refresh_time = Fifth * now

C9_RefreshOnce ==
    ( /\ pc[1] = "idle"
      /\ entry[1] = "refresh_due"
      /\ ~IsError(result[1]) )
    => /\ refresh_calls[1] = 1
       /\ paced_calls[1] = 0
       /\ result[1].kind \in {"jwt", "None"}
       /\ result[1] = Get(token_info, arg_token_name)
       /\ (result[1].kind = "jwt" => result[1].id = fetch_id[1])
       /\ fetch_id[1] = fetches

\* the refresh call has replaced a cached token by a new one
C9_Witness ==
    /\ pc[1] = "idle" /\ entry[1] = "refresh_due"
    /\ result[1].kind = "jwt" /\ result[1].id = 2
    /\ refresh_calls[1] = 1 /\ paced_calls[1] = 0

\* C10: what get_token returns is the value stored in token_info under the
\* token_name the manager was constructed with (None when there is none),
\* for TokenManager and for JWTTokenManager.
C10_ReturnsConfiguredField ==
    [][\A c \in Callers :
          Returns(c) => result'[c] = Get(token_info, arg_token_name)]_vars

\* a JWTTokenManager call has fetched a token and returned it
C10_Witness ==
    \E c \in Callers :
        /\ variant = "JWTTokenManager"
        /\ pc[c] = "idle" /\ paced_calls[c] = 1
        /\ result[c].kind = "jwt" /\ result[c].id = fetch_id[c]
        /\ result[c] = token_info[arg_token_name]

\* the step in which caller c completes _set_expire_and_refresh_time (line 231)
Saves(c) == pc[c] = "save_refresh" /\ pc'[c] # pc[c]

\* the step in which _token_needs_refresh returns to caller c (line 182)
NeedsRefreshReturns(c) == pc[c] = "nr_locked" /\ pc'[c] # pc[c]

\* C11: refresh_time <= expire_time in every reachable state: initially,
\* after every _save_token_info and after every _token_needs_refresh call.
C11_RefreshBeforeExpiry == refresh_time <= Fifth * expire_time

\* C11 (amended): refresh_time <= expire_time initially and at the end of
\* every _save_token_info of a token with ttl >= 0 during which no other
\* caller is about to write expire_time; a _token_needs_refresh call that
\* returns true leaves refresh_time at its current_time + 60, whatever
\* expire_time is.
C11_RefreshBeforeExpiryAtSave ==
    /\ refresh_time <= Fifth * expire_time
    /\ [][\A c \in Callers :
             /\ (Saves(c) /\ \A d \in Callers \ {c} : pc[d] # "save_expire")
                   => refresh_time' <= Fifth * expire_time'
             /\ (NeedsRefreshReturns(c) /\ pc'[c] = "request_token")
                   => refresh_time' = Fifth * (current_time[c] + PaceWindow)]_vars

\* a save has just stored the short-lived token: refresh one second before expiry
C11_Witness ==
    \E c \in Callers :
        /\ pc[c] \in {"prt_release", "gt_return"}
        /\ expire_time = Epoch + 1
        /\ refresh_time = Fifth * Epoch
        /\ token_info["access_token"].exp = expire_time

\* C12: a step of a caller that modifies request_time or refresh_time is
\* taken while that caller holds the lock.
C12_FieldsUnderLock ==
    [][\A c \in Callers :
          ( /\ pc'[c] # pc[c]
            /\ (request_time' # request_time \/ refresh_time' # refresh_time) )
          => lock = c]_vars

\* C13: a thread that builds a TokenManager from the base class itself (no
\* method overridden) gets an instance, and its call of request_token or
\* extract_exp_and_ttl ends in NotImplementedError with the message
\* '<method> MUST be overridden by a subclass of TokenManager.'
C13_BaseRaisesNotImplemented ==
    \A c \in Callers :
        (overrides = {} /\ calls[c] > 0)
        => \/ pc[c] = "built"
           \/ \E method \in AbstractMethods : result[c] = NotImplementedError(method)

\* the step in which _token_needs_refresh returns true to caller c
RefreshClaims(c) == NeedsRefreshReturns(c) /\ pc'[c] = "request_token"

\* C14: once _token_needs_refresh has returned true to one caller at time
\* t, it returns true to no other caller before t + 60, saves included.
C14_OneRefreshPerWindow ==
    [][\A c \in Callers :
          (RefreshClaims(c) /\ refresh_claim.by \notin {0, c})
          => current_time[c] >= refresh_claim.at + PaceWindow]_vars

\* C14 (amended): once _token_needs_refresh has returned true at time t,
\* every call of it, by any caller, that reads the clock at or before t + 60
\* returns false and leaves refresh_time alone, as long as no
\* _save_token_info has written refresh_time since.
C14_OneRefreshUntilSaved ==
    [][\A c \in Callers :
          ( /\ NeedsRefreshReturns(c)
            /\ refresh_claim.kept
            /\ current_time[c] <= refresh_claim.at + PaceWindow )
          => /\ pc'[c] = "gt_return"
             /\ UNCHANGED <<refresh_time, refresh_claim>>]_vars

\* a caller that found the refresh due on entry was turned away by the claim
\* of another caller whose fetch is still in flight
C14_Witness ==
    \E c, d \in Callers :
        /\ c # d
        /\ refresh_claim = [by |-> c, at |-> Epoch + 1, kept |-> TRUE, failed |-> FALSE]
        /\ pc[c] = "request_token" /\ path[c] = "refresh"
        /\ entry[d] = "refresh_due" /\ pc[d] = "gt_return"
        /\ paced_calls[d] = 0 /\ refresh_calls[d] = 0
        /\ refresh_time = Fifth * (Epoch + 1 + PaceWindow)

\* C15: a _token_needs_refresh call that finds refresh_time < its
\* current_time returns true and sets refresh_time to current_time + 60; a
\* call that finds refresh_time >= its current_time returns false and
\* changes nothing; and with no save after a call that returned true at t, a
\* call reading the clock within the next 60 seconds returns false and
\* leaves refresh_time unchanged.
C15_NeedsRefreshTwice ==
    [][\A c \in Callers :
          NeedsRefreshReturns(c) =>
            /\ (refresh_time < Fifth * current_time[c])
                  => /\ pc'[c] = "request_token"
                     /\ refresh_time' = Fifth * (current_time[c] + 60)
            /\ (refresh_time >= Fifth * current_time[c])
                  => /\ pc'[c] = "gt_return"
                     /\ UNCHANGED <<record, request_time>>
            /\ ( /\ refresh_claim.kept
                 /\ current_time[c] >= refresh_claim.at
                 /\ current_time[c] <= refresh_claim.at + 60 )
                  => /\ pc'[c] = "gt_return"
                     /\ refresh_time' = Fifth * (refresh_claim.at + 60)]_vars

\* the caller whose first call returned true (its fetch failed, nothing was
\* saved) has called again within the window and was answered false
C15_Witness ==
    \E c \in Callers :
        /\ refresh_claim = [by |-> c, at |-> Epoch + 1, kept |-> TRUE, failed |-> FALSE]
        /\ calls[c] = 2 /\ pc[c] = "gt_return"
        /\ paced_calls[c] = 0 /\ refresh_calls[c] = 0
        /\ now = Epoch + 1 + PaceWindow
        /\ refresh_time = Fifth * now

\* the step in which the request_token call of the refresh branch (line 88)
\* raises to caller c
RefreshFails(c) ==
    pc[c] = "request_token" /\ path[c] = "refresh" /\ pc'[c] = "idle"

\* C16: when the fetch of the refresh branch fails, token_info, expire_time
\* and refresh_time are left as they are, the error goes to the caller, and
\* no _token_needs_refresh call returns true until 60 seconds after the
\* failed caller's claim.
C16_FailedRefreshHoldsWindow ==
    [][\A c \in Callers :
          /\ RefreshFails(c)
                => /\ UNCHANGED <<token_info, expire_time, refresh_time>>
                   /\ result'[c] = TransportError
          /\ ( /\ NeedsRefreshReturns(c)
               /\ refresh_claim.failed
               /\ current_time[c] <= refresh_claim.at + PaceWindow )
                => pc'[c] = "gt_return"]_vars

\* C16 (amended): when the fetch of the refresh branch fails, token_info,
\* expire_time and refresh_time are left as they are (refresh_time at the
\* failed caller's current_time + 60 when no save has written it), the
\* error goes to the caller, and as long as no _save_token_info writes
\* refresh_time no _token_needs_refresh call returns true until 60 seconds
\* after the failed caller's claim.
C16_FailedRefreshHoldsUntilSaved ==
    [][\A c \in Callers :
          /\ RefreshFails(c)
                => /\ UNCHANGED <<token_info, expire_time, refresh_time>>
                   /\ result'[c] = TransportError
                   /\ (refresh_claim.by = c /\ refresh_claim.kept)
                         => refresh_time' = Fifth * (refresh_claim.at + PaceWindow)
          /\ ( /\ NeedsRefreshReturns(c)
               /\ refresh_claim.failed /\ refresh_claim.kept
               /\ current_time[c] <= refresh_claim.at + PaceWindow )
                => /\ pc'[c] = "gt_return"
                   /\ UNCHANGED refresh_time]_vars

\* the refresh fetch of one caller failed although the cached token is still
\* valid, and another caller that found the refresh due was turned away
C16_Witness ==
    \E c, d \in Callers :
        /\ c # d
        /\ refresh_claim = [by |-> c, at |-> Epoch + 1, kept |-> TRUE, failed |-> TRUE]
        /\ pc[c] = "idle" /\ result[c] = TransportError /\ path[c] = "refresh"
        /\ expire_time >= now
        /\ token_info["access_token"].kind = "jwt"
        /\ refresh_time = Fifth * (Epoch + 1 + PaceWindow)
        /\ entry[d] = "refresh_due" /\ pc[d] = "gt_return"
        /\ paced_calls[d] = 0 /\ refresh_calls[d] = 0

\* C17: the two fetch paths do not exclude each other.  One get_token call
\* makes at most one request_token call as claimant and at most one from
\* the refresh branch, the paced one first; both can happen in one call,
\* and one caller can be in request_token from the refresh branch while
\* another is in request_token as claimant (the witness).
C17_PacedThenRefresh ==
    \A c \in Callers :
        /\ paced_calls[c] <= 1
        /\ refresh_calls[c] <= 1
        /\ (pc[c] \in {"prt_lock", "prt_locked", "prt_sleep", "prt_release"}
              \/ path[c] = "paced")
             => refresh_calls[c] = 0
        /\ pc[c] = "request_token" => path[c] \in {"paced", "refresh"}

\* a caller that has made a paced fetch in this call is in request_token from
\* the refresh branch while the other caller is in request_token as claimant
C17_Witness ==
    \E c, d \in Callers :
        /\ c # d
        /\ pc[c] = "request_token" /\ path[c] = "refresh" /\ paced_calls[c] = 1
        /\ pc[d] = "request_token" /\ path[d] = "paced"
        /\ request_time # 0 /\ refresh_claim.by = c

\* caller c is the claimant of a paced fetch that has not finished: it is
\* between line 134 and line 139
InFlight(c) ==
    /\ path[c] = "paced"
    /\ pc[c] \in {"request_token", "save_expire", "save_refresh", "prt_release"}

\* C18: request_time # 0 only while the caller that recorded it is the
\* claimant of a paced fetch in flight, and a claimant that finishes does
\* not clear the claim of a newer claimant still in flight.
C18_ClaimHasClaimant ==
    /\ [](request_time # 0
            => \E c \in Callers :
                  InFlight(c) /\ last_claim = [by |-> c, at |-> request_time])
    /\ [][\A c, d \in Callers :
             ( /\ pc[c] = "prt_release" /\ pc'[c] # pc[c]
               /\ d # c /\ last_claim.by = d /\ InFlight(d) )
             => request_time' = request_time]_vars

\* the step in which caller c evaluates _is_token_expired: line 84 with the
\* loop condition of line 128 on entry, or the loop condition after a sleep
TestsExpiry(c) == pc[c] \in {"idle", "prt_sleep"} /\ pc'[c] \in {"prt_lock", "nr_time"}

\* C19: _is_token_expired answers true when expire_time is 0 or is before
\* the clock, and false when a token is stored with expire_time at or after
\* the clock; a token whose expire_time is the current second is not expired.
C19_ExpiredBeforeNow ==
    [][\A c \in Callers :
          TestsExpiry(c) =>
            /\ (expire_time = 0 \/ expire_time < now) => pc'[c] = "prt_lock"
            /\ (expire_time # 0 /\ expire_time >= now) => pc'[c] = "nr_time"
            /\ (expire_time # 0 /\ expire_time = now) => pc'[c] = "nr_time"]_vars

\* a call made in the last second of the stored token has found it valid
C19_Witness ==
    \E c \in Callers :
        /\ expire_time = now /\ now = Epoch + 1
        /\ token_info["access_token"].kind = "jwt"
        /\ token_info["access_token"].exp = now
        /\ calls[c] = 2 /\ pc[c] = "nr_time" /\ paced_calls[c] = 0

\* C20: a save of a token with expiry exp and lifetime ttl = exp - iat
\* leaves expire_time = exp and refresh_time = exp - 0.2 * ttl, which is
\* iat + 0.8 * ttl; exp = 1000 and iat = 900 give 1000 and 980.
C20_RefreshAtEightyPercent ==
    /\ JwtExpAndTtl([k \in Keys |-> Jwt(1, 1000, 900)], "access_token")
          = [ok |-> TRUE, exp |-> 1000, ttl |-> 100]
    /\ RefreshTimeFor(1000, 100) = Fifth * 980
    /\ [][Saves(1) =>
             LET tok == token_info["access_token"]
                 ttl == tok.exp - tok.iat
             IN  /\ expire_time' = tok.exp
                 /\ refresh_time' = Fifth * tok.exp - ttl
                 /\ refresh_time' = Fifth * tok.iat + 4 * ttl]_vars

\* the long-lived token has been saved: expiry after 1000 seconds, refresh
\* after 800
C20_Witness ==
    /\ pc[1] = "prt_release"
    /\ token_info["access_token"] = Jwt(1, Epoch + 1000, Epoch)
    /\ expire_time = Epoch + 1000
    /\ refresh_time = Fifth * (Epoch + 800)

\* C21: when the extraction of exp and ttl fails in _save_token_info, the
\* record is as it was before the fetch: once the call has ended with the
\* decode error, token_info does not hold the response of that fetch, and
\* no get_token call returns the token of that response.
C21_FailedSaveLeavesRecord ==
    /\ [](\A c \in Callers :
             (pc[c] = "idle" /\ result[c] = DecodeError)
             => \A k \in Keys :
                   token_info[k] = None \/ token_info[k].id # fetch_id[c])
    /\ [][\A c, d \in Callers :
             (Returns(d) /\ pc[c] = "idle" /\ result[c] = DecodeError)
             => (result'[d] = None \/ result'[d].id # fetch_id[c])]_vars

\* C22: a caller holds the lock only inside the two critical sections,
\* never in request_token nor asleep in the loop; the lock, once taken, is
\* released; and a caller that has passed the expiry test comes out of
\* _token_needs_refresh, to return or to fetch for itself, whatever
\* fetches of other callers are in flight.
C22_LockOnlyInCriticalSections ==
    /\ [](\A c \in Callers : lock = c <=> pc[c] \in {"prt_locked", "nr_locked"})
    /\ [](lock \in Callers \cup {0})
    /\ \A c \in Callers : (lock = c) ~> (lock = 0)
    /\ \A c \in Callers :
          (pc[c] \in {"nr_time", "nr_lock"}) ~> (pc[c] \in {"idle", "request_token"})

\* a caller has returned the cached token, valid and not due for refresh,
\* while the refresh fetch of the other caller is in flight
C22_Witness ==
    \E c, d \in Callers :
        /\ c # d
        /\ pc[c] = "request_token" /\ path[c] = "refresh"
        /\ calls[d] = 2 /\ entry[d] = "fresh"
        /\ pc[d] = "idle" /\ result[d].kind = "jwt"
        /\ paced_calls[d] = 0 /\ refresh_calls[d] = 0
        /\ lock = 0

\* the clock has reached the end of the run with a claim on record that is
\* still less than 60 seconds old
ClaimOutlivesRun == now = MaxTime /\ request_time + 60 > MaxTime

\* C7: a caller sleeping in the loop of paced_request_token eventually
\* leaves the loop, finding the token valid or becoming claimant itself,
\* unless the run ends within 60 seconds of the claim it waits for.
C7_PollerLeaves ==
    \A c \in Callers :
        (pc[c] = "prt_sleep")
            ~> (pc[c] \in {"nr_time", "request_token"} \/ ClaimOutlivesRun)

\* a sleeping caller has taken over from a claimant that never finished
C7_Witness ==
    \E c, d \in Callers :
        /\ c # d
        /\ pc[d] = "request_token" /\ path[d] = "paced"
        /\ pc[c] = "request_token" /\ path[c] = "paced"
        /\ last_claim = [by |-> c, at |-> Epoch + 60]
        /\ request_time = Epoch + 60

====
